---- MODULE Spec2Model ----
\* Model of pyro.contrib.gp.parameterized.Parameterized: the prior and guide
\* registries, the backing sub-parameter attributes of the auto guides, the
\* mode flag and its propagation through the module tree, and the cached
\* sampling of prior-bearing parameters.
EXTENDS Integers, Sequences, FiniteSets, TLC

\* priors[s]  self._priors of store s: name -> prior distribution
\* guides[s]  self._guides of store s: name -> (dist_constructor, dist_args)
\* attrs[s]   the attributes of store s the class sets: name -> object
\* mode[s]    self._mode of store s
\* cache[s]   the per-pass cache of store s: full name -> value
\* draws      the pyro.sample sites of the current pass, in order
\* last       the last call, the exception it raised and the value it returned
VARIABLES priors, guides, attrs, mode, cache, draws, last

vars == <<priors, guides, attrs, mode, cache, draws, last>>

\* ------------------------------------------------------------------ bounds
\* Number of pyro.sample sites one evaluation pass may record.
MaxDraws == 4

\* ------------------------------------------------------------- module tree
\* Modules are named by their path from the top module. "gp", its nested
\* "kern" (held by the plain container "seq") and "lik" are Parameterized;
\* the top module and "seq" are plain modules.
Modules == {<<>>, <<"gp">>, <<"gp", "seq">>, <<"gp", "seq", "kern">>, <<"lik">>}

Stores == {<<"gp">>, <<"gp", "seq", "kern">>, <<"lik">>}

IsPrefix(p, q) == Len(p) <= Len(q) /\ SubSeq(q, 1, Len(p)) = p

\* The module itself and its direct children only.
modules_children_only(m) ==
    {x \in Modules : x = m \/ (Len(x) = Len(m) + 1 /\ IsPrefix(m, x))}

\* self.modules(): the module itself and every module below it.
modules(m) == {x \in Modules : IsPrefix(m, x)}

isinstance_Parameterized(m) == m \in Stores

\* ------------------------------------------------------------------ inputs
\* Parameter names; none of them is a suffixed name "{name}_{suffix}" or a
\* latent name "{name}_latent" of another.
Names == {"a", "b"}

\* The prior-bearing attributes each store's class assigns.
Declared(s) ==
    IF s = <<"gp">> THEN {"a", "b"}
    ELSE IF s = <<"gp", "seq", "kern">> THEN {"a"}
    ELSE {}

\* A distribution instance is the chain of its Independent wrappers followed
\* by the base distribution.
Priors == {<<"Normal">>, <<"LogNormal">>, <<"Independent", "Normal">>}

\* dist.Delta, dist.Normal, dist.MultivariateNormal and one other constructor.
Constructors == {"Delta", "Normal", "MultivariateNormal", "Gamma"}

Modes == {"model", "guide"}

NoneMode == "None"

\* ------------------------------------------------------- helper functions
\* "{}_{}".format(name, arg)
AttrName(name, arg) == name \o "_" \o arg

RECURSIVE DotJoin(_)
\* The dotted full name of a path.
DotJoin(path) ==
    IF Len(path) = 0 THEN ""
    ELSE IF Len(path) = 1 THEN path[1]
    ELSE path[1] \o "." \o DotJoin(Tail(path))

RECURSIVE support(_)
\* dist_instance.support: an Independent reports its base support wrapped as
\* an independent constraint, which is not the constraints.real object.
support(d) ==
    IF d[1] = "Independent" THEN <<"independent">> \o support(Tail(d))
    ELSE IF d[1] = "Normal" THEN <<"real">>
    ELSE <<"positive">>

\* The support of the distribution as given, its wrappers kept.
_get_support_as_given(dist_instance) == support(dist_instance)

RECURSIVE _get_independent_support(_)
_get_independent_support(dist_instance) ==
    IF dist_instance[1] = "Independent"
    THEN _get_independent_support(Tail(dist_instance))
    ELSE support(dist_instance)

constraints_real == <<"real">>

\* ------------------------------------------------------------- attributes
\* Parameter(...): a free parameter object.
Parameter == [kind |-> "Parameter", constraint |-> <<>>]

\* PyroParam(..., constraint): a constrained parameter object.
PyroParam(constraint) == [kind |-> "PyroParam", constraint |-> constraint]

\* PyroSample(prior): the prior-bearing value assigned to an attribute.
PyroSample(prior) == [kind |-> "PyroSample", constraint |-> <<>>]

\* setattr(self, key, value) on the attribute dictionary.
setattr(att, key, value) ==
    [k \in DOMAIN att \cup {key} |-> IF k = key THEN value ELSE att[k]]

\* The attribute dictionary without key.
delattr(att, key) == [k \in DOMAIN att \ {key} |-> att[k]]

\* delete_old_guide stopping after the first attribute.
delete_old_guide_first_only(att, name, dist_args) ==
    IF Len(dist_args) = 0 THEN [err |-> "", attrs |-> att]
    ELSE IF AttrName(name, Head(dist_args)) \notin DOMAIN att
         THEN [err |-> "AttributeError", attrs |-> att]
         ELSE [err |-> "", attrs |-> delattr(att, AttrName(name, Head(dist_args)))]

\* delete_old_guide deleting nothing.
delete_old_guide_skipped(att, name, dist_args) == [err |-> "", attrs |-> att]

RECURSIVE delete_old_guide(_, _, _)
\* The loop deleting the old guide's attributes, in order; a missing
\* attribute raises AttributeError and keeps the deletions made before it.
delete_old_guide(att, name, dist_args) ==
    IF Len(dist_args) = 0 THEN [err |-> "", attrs |-> att]
    ELSE IF AttrName(name, Head(dist_args)) \notin DOMAIN att
         THEN [err |-> "AttributeError", attrs |-> att]
         ELSE delete_old_guide(delattr(att, AttrName(name, Head(dist_args))),
                               name, Tail(dist_args))

SupportedConstructors == {"Delta", "Normal", "MultivariateNormal"}

\* The parameters a guide family creates, as <<suffix, object>> pairs in
\* the order of the setattr calls.
new_guide_params(prior, dist_constructor) ==
    IF dist_constructor = "Delta"
    THEN IF _get_independent_support(prior) = constraints_real
         THEN << <<"map", Parameter>> >>
         ELSE << <<"map", PyroParam(_get_independent_support(prior))>> >>
    ELSE IF dist_constructor = "Normal"
    THEN << <<"loc", Parameter>>, <<"scale", PyroParam(<<"positive">>)>> >>
    ELSE << <<"loc", Parameter>>, <<"scale_tril", PyroParam(<<"lower_cholesky">>)>> >>

RECURSIVE set_params(_, _, _)
set_params(att, name, params) ==
    IF Len(params) = 0 THEN att
    ELSE set_params(setattr(att, AttrName(name, Head(params)[1]), Head(params)[2]),
                    name, Tail(params))

\* Parameterized.autoguide past its two checks: the old guide is deleted,
\* the parameter read, the new sub-parameters set and the guide recorded.
autoguide_install(pri, gui, att, name, dist_constructor) ==
    LET del == IF name \in DOMAIN gui
               THEN delete_old_guide(att, name, gui[name].dist_args)
               ELSE [err |-> "", attrs |-> att]
    IN  IF del.err # "" \/ name \notin DOMAIN del.attrs
        THEN [err |-> "AttributeError", guides |-> gui, attrs |-> del.attrs]
        ELSE
          LET params == new_guide_params(pri[name], dist_constructor)
              dist_args == [i \in 1..Len(params) |-> params[i][1]]
          IN  [err |-> "",
               guides |-> setattr(gui, name,
                                  [dist_constructor |-> dist_constructor,
                                   dist_args |-> dist_args]),
               attrs |-> set_params(del.attrs, name, params)]

\* autoguide entering the guide in the registry before its checks.
autoguide_record_first(pri, gui, att, name, dist_constructor) ==
    LET early == setattr(gui, name, [dist_constructor |-> dist_constructor,
                                     dist_args |-> <<>>])
    IN  IF name \notin DOMAIN pri
        THEN [err |-> "ValueError", guides |-> early, attrs |-> att]
        ELSE IF dist_constructor \notin SupportedConstructors
        THEN [err |-> "NotImplementedError", guides |-> early, attrs |-> att]
        ELSE autoguide_install(pri, gui, att, name, dist_constructor)

\* autoguide without the check of the constructor, its last branch taken
\* by every constructor that is neither Delta nor Normal.
autoguide_no_family_check(pri, gui, att, name, dist_constructor) ==
    IF name \notin DOMAIN pri
    THEN [err |-> "ValueError", guides |-> gui, attrs |-> att]
    ELSE autoguide_install(pri, gui, att, name, dist_constructor)

\* autoguide checking the constructor before the prior.
autoguide_family_first(pri, gui, att, name, dist_constructor) ==
    IF dist_constructor \notin SupportedConstructors
    THEN [err |-> "NotImplementedError", guides |-> gui, attrs |-> att]
    ELSE IF name \notin DOMAIN pri
    THEN [err |-> "ValueError", guides |-> gui, attrs |-> att]
    ELSE autoguide_install(pri, gui, att, name, dist_constructor)

\* autoguide deleting the old guide before it checks the constructor.
autoguide_delete_first(pri, gui, att, name, dist_constructor) ==
    IF name \notin DOMAIN pri
    THEN [err |-> "ValueError", guides |-> gui, attrs |-> att]
    ELSE IF dist_constructor \notin SupportedConstructors
    THEN [err |-> "NotImplementedError", guides |-> gui,
          attrs |-> IF name \in DOMAIN gui
                    THEN delete_old_guide(att, name, gui[name].dist_args).attrs
                    ELSE att]
    ELSE autoguide_install(pri, gui, att, name, dist_constructor)

\* Parameterized.autoguide on one store's registries and attributes: the
\* exception raised ("" when none) and the store afterwards.
autoguide(pri, gui, att, name, dist_constructor) ==
    IF name \notin DOMAIN pri
    THEN [err |-> "ValueError", guides |-> gui, attrs |-> att]
    ELSE IF dist_constructor \notin SupportedConstructors
    THEN [err |-> "NotImplementedError", guides |-> gui, attrs |-> att]
    ELSE autoguide_install(pri, gui, att, name, dist_constructor)

\* ------------------------------------------------------------------ state
EmptyDict == [k \in {} |-> 0]

\* What the last call was, the exception it raised ("" when none) and the
\* value it returned (0 when none).
Call(op, err, ret) == [op |-> op, err |-> err, ret |-> ret]

\* Parameterized.__init__ on every store; no pass has drawn anything.
Init ==
    /\ priors = [s \in Stores |-> EmptyDict]
    /\ guides = [s \in Stores |-> EmptyDict]
    /\ attrs = [s \in Stores |-> EmptyDict]
    /\ mode = [s \in Stores |-> NoneMode]
    /\ cache = [s \in Stores |-> EmptyDict]
    /\ draws = <<>>
    /\ last = Call("__init__", "", 0)

\* ---------------------------------------------------------------- actions
\* Parameterized.__setattr__ with a PyroSample value: the attribute is set,
\* the prior recorded, and autoguide(name, dist.Delta) called; an exception
\* of autoguide leaves the attribute and the prior in place.
register_prior(s, name, prior) ==
    /\ LET att == setattr(attrs[s], name, PyroSample(prior))
           pri == setattr(priors[s], name, prior)
           r == autoguide(pri, guides[s], att, name, "Delta")
       IN  /\ priors' = [priors EXCEPT ![s] = pri]
           /\ guides' = [guides EXCEPT ![s] = r.guides]
           /\ attrs' = [attrs EXCEPT ![s] = r.attrs]
           /\ last' = Call("__setattr__", r.err, 0)
    /\ UNCHANGED <<mode, cache, draws>>

\* Parameterized.autoguide(name, dist_constructor).
install_guide(s, name, dist_constructor) ==
    /\ LET r == autoguide(priors[s], guides[s], attrs[s], name, dist_constructor)
       IN  /\ guides' = [guides EXCEPT ![s] = r.guides]
           /\ attrs' = [attrs EXCEPT ![s] = r.attrs]
           /\ last' = Call("autoguide", r.err, 0)
    /\ UNCHANGED <<priors, mode, cache, draws>>

\* Parameterized.set_mode(mode): the mode setter on every Parameterized
\* among self.modules().
set_mode(s, m) ==
    /\ mode' = [x \in Stores |->
                  IF x \in modules(s) /\ isinstance_Parameterized(x) THEN m ELSE mode[x]]
    /\ last' = Call("set_mode", "", 0)
    /\ UNCHANGED <<priors, guides, attrs, cache, draws>>

\* ---------------------------------------------------------------- sampling
\* pyro.sample(name, fn, infer): one more site on the trace; the value it
\* returns is a new tensor, named by the position of its site.
pyro_sample(drw, tag, fn, is_auxiliary) ==
    Append(drw, [tag |-> tag, fn |-> fn, is_auxiliary |-> is_auxiliary,
                 value |-> Len(drw) + 1])

\* Parameterized._get_guide(name, full_name): the exception raised, the
\* distribution returned and the trace afterwards. A distribution is
\* written as the sequence of its constructor and what it is built from.
_get_guide(pri, gui, att, drw, name, full_name) ==
    IF name \notin DOMAIN gui
    THEN [err |-> "KeyError", fn |-> <<>>, draws |-> drw]
    ELSE
      LET dist_constructor == gui[name].dist_constructor
          dist_args == gui[name].dist_args
          arg_names == [i \in 1..Len(dist_args) |-> AttrName(name, dist_args[i])]
      IN  IF \E i \in 1..Len(arg_names) : arg_names[i] \notin DOMAIN att
          THEN [err |-> "AttributeError", fn |-> <<>>, draws |-> drw]
          ELSE IF dist_constructor = "Delta"
          THEN [err |-> "", fn |-> <<"Delta">> \o arg_names, draws |-> drw]
          ELSE IF _get_independent_support(pri[name]) = constraints_real
          THEN [err |-> "", fn |-> <<"to_event", dist_constructor>> \o arg_names,
                draws |-> drw]
          ELSE
            LET latent == full_name \o "_latent"
            IN  [err |-> "",
                 fn |-> <<"Delta", "transform", latent, "log_abs_det_jacobian">>,
                 draws |-> pyro_sample(drw, latent,
                                       <<"to_event", dist_constructor>> \o arg_names,
                                       TRUE)]

\* _pyro_sample that never stores the value it drew.
_pyro_sample_not_cached(c, m, pri, gui, att, drw, name, fn) ==
    IF DotJoin(name) \in DOMAIN c
    THEN [err |-> "", value |-> c[DotJoin(name)], cache |-> c, draws |-> drw]
    ELSE
      LET g == IF m = "guide"
               THEN _get_guide(pri, gui, att, drw, name[Len(name)], DotJoin(name))
               ELSE [err |-> "", fn |-> fn, draws |-> drw]
      IN  IF g.err # ""
          THEN [err |-> g.err, value |-> 0, cache |-> c, draws |-> g.draws]
          ELSE [err |-> "", value |-> Len(g.draws) + 1, cache |-> c,
                draws |-> pyro_sample(g.draws, DotJoin(name), g.fn, FALSE)]

\* _pyro_sample that takes the guide whenever the mode is not "model".
_pyro_sample_guide_unless_model(c, m, pri, gui, att, drw, name, fn) ==
    IF DotJoin(name) \in DOMAIN c
    THEN [err |-> "", value |-> c[DotJoin(name)], cache |-> c, draws |-> drw]
    ELSE
      LET g == IF m # "model"
               THEN _get_guide(pri, gui, att, drw, name[Len(name)], DotJoin(name))
               ELSE [err |-> "", fn |-> fn, draws |-> drw]
      IN  IF g.err # ""
          THEN [err |-> g.err, value |-> 0, cache |-> c, draws |-> g.draws]
          ELSE [err |-> "", value |-> Len(g.draws) + 1,
                cache |-> setattr(c, DotJoin(name), Len(g.draws) + 1),
                draws |-> pyro_sample(g.draws, DotJoin(name), g.fn, FALSE)]

\* Parameterized._pyro_sample(name, fn) with name given as its dotted
\* components: the exception raised, the value returned, and the cache and
\* the trace afterwards.
_pyro_sample(c, m, pri, gui, att, drw, name, fn) ==
    IF DotJoin(name) \in DOMAIN c
    THEN [err |-> "", value |-> c[DotJoin(name)], cache |-> c, draws |-> drw]
    ELSE
      LET g == IF m = "guide"
               THEN _get_guide(pri, gui, att, drw, name[Len(name)], DotJoin(name))
               ELSE [err |-> "", fn |-> fn, draws |-> drw]
      IN  IF g.err # ""
          THEN [err |-> g.err, value |-> 0, cache |-> c, draws |-> g.draws]
          ELSE [err |-> "", value |-> Len(g.draws) + 1,
                cache |-> setattr(c, DotJoin(name), Len(g.draws) + 1),
                draws |-> pyro_sample(g.draws, DotJoin(name), g.fn, FALSE)]

\* A read of the prior-bearing attribute name of store s during a pass.
sample_parameter(s, name) ==
    /\ name \in DOMAIN priors[s]
    /\ name \in DOMAIN attrs[s]
    /\ attrs[s][name].kind = "PyroSample"
    /\ LET r == _pyro_sample(cache[s], mode[s], priors[s], guides[s], attrs[s], draws,
                             s \o <<name>>, priors[s][name])
       IN  /\ Len(r.draws) <= MaxDraws
           /\ cache' = [cache EXCEPT ![s] = r.cache]
           /\ draws' = r.draws
           /\ last' = Call("_pyro_sample", r.err, r.value)
    /\ UNCHANGED <<priors, guides, attrs, mode>>

\* The inference engine starts another evaluation pass: the cache is
\* cleared and a new trace begun.
new_pass ==
    /\ cache' = [s \in Stores |-> EmptyDict]
    /\ draws' = <<>>
    /\ last' = Call("new_pass", "", 0)
    /\ UNCHANGED <<priors, guides, attrs, mode>>

\* ----------------------------------------------------------- specifications
\* The registries under every assignment and autoguide call on every store,
\* with the mode set from the root store.
Next ==
    \/ \E s \in Stores : \E name \in Declared(s), prior \in Priors :
          register_prior(s, name, prior)
    \/ \E s \in Stores, name \in Names, c \in Constructors : install_guide(s, name, c)
    \/ \E m \in Modes : set_mode(<<"gp">>, m)

Spec == Init /\ [][Next]_vars

\* Evaluation passes over the parameter "a" of "gp" and of its nested
\* "kern", with one prior of real and one of positive support.
PassStores == {<<"gp">>, <<"gp", "seq", "kern">>}

PassPriors == {<<"Independent", "Normal">>, <<"LogNormal">>}

NextPass ==
    \/ \E s \in PassStores, prior \in PassPriors : register_prior(s, "a", prior)
    \/ \E s \in PassStores, c \in SupportedConstructors : install_guide(s, "a", c)
    \/ \E s \in PassStores, m \in Modes : set_mode(s, m)
    \/ \E s \in PassStores : sample_parameter(s, "a")
    \/ new_pass

SpecPass == Init /\ [][NextPass]_vars

\* The mode set on any store, between reads of the default-guided
\* parameter "a" of "gp" and of "kern".
NextMode ==
    \/ \E s \in PassStores, prior \in PassPriors : register_prior(s, "a", prior)
    \/ \E s \in Stores, m \in Modes : set_mode(s, m)
    \/ \E s \in PassStores : sample_parameter(s, "a")
    \/ new_pass

SpecMode == Init /\ [][NextMode]_vars

\* ------------------------------------------------------------------ claims
\* The sub-parameter suffixes of each supported guide family.
Suffixes(family) ==
    IF family = "Delta" THEN {"map"}
    ELSE IF family = "Normal" THEN {"loc", "scale"}
    ELSE IF family = "MultivariateNormal" THEN {"loc", "scale_tril"}
    ELSE {}

AllSuffixes == {"map", "loc", "scale", "scale_tril"}

\* The suffixes under which store s holds an attribute "{name}_{suffix}".
PresentSuffixes(att, name) == {x \in AllSuffixes : AttrName(name, x) \in DOMAIN att}

Range(f) == {f[i] : i \in DOMAIN f}

\* C1: in every reachable state, after calls that fail too, every name with
\* an entry in the guide registry has an entry in the prior registry.
C1_GuideOnlyWithPrior ==
    \A s \in Stores : DOMAIN guides[s] \subseteq DOMAIN priors[s]

\* A failed autoguide call on a store that holds guides.
C1_Witness ==
    /\ last.op = "autoguide"
    /\ last.err = "ValueError"
    /\ \E s \in Stores : DOMAIN guides[s] # {} /\ DOMAIN priors[s] # Names

\* C2 as stated: after a successful install_guide on a name that had a
\* guide, no attribute "{name}_{suffix}" of the old guide exists.
C2_Original ==
    [][\A s \in Stores, name \in Names, c \in Constructors :
         (install_guide(s, name, c) /\ last'.err = "" /\ name \in DOMAIN guides[s])
         => \A x \in Range(guides[s][name].dist_args) :
              AttrName(name, x) \notin DOMAIN attrs'[s]]_vars

\* C2 amended: after a successful install_guide on a name that had a guide,
\* every old sub-parameter attribute whose suffix the new family does not
\* use is gone, and the suffixed attributes of the name are exactly those
\* of the new family.
C2_OldGuideRemoved ==
    [][\A s \in Stores, name \in Names, c \in Constructors :
         (install_guide(s, name, c) /\ last'.err = "" /\ name \in DOMAIN guides[s])
         => /\ \A x \in Range(guides[s][name].dist_args) \ Suffixes(c) :
                 AttrName(name, x) \notin DOMAIN attrs'[s]
            /\ PresentSuffixes(attrs'[s], name) = Suffixes(c)
            /\ Range(guides'[s][name].dist_args) = Suffixes(c)]_vars

\* A successful autoguide call has left a Normal or MultivariateNormal guide.
C2_Witness ==
    /\ last.op = "autoguide"
    /\ last.err = ""
    /\ \E s \in Stores, name \in Names :
         /\ name \in DOMAIN guides[s]
         /\ guides[s][name].dist_constructor # "Delta"

\* C4 as stated: install_guide with an unsupported family raises
\* NotImplementedError for every name and every state of the store.
C4_Original ==
    [][\A s \in Stores, name \in Names, c \in Constructors \ SupportedConstructors :
         install_guide(s, name, c) => last'.err = "NotImplementedError"]_vars

\* C4 amended: install_guide with an unsupported family on a name that has a
\* prior raises NotImplementedError.
C4_UnsupportedFamilyFails ==
    [][\A s \in Stores, name \in Names, c \in Constructors \ SupportedConstructors :
         (install_guide(s, name, c) /\ name \in DOMAIN priors[s])
         => last'.err = "NotImplementedError"]_vars

\* An autoguide call has raised NotImplementedError.
C4_Witness == last.op = "autoguide" /\ last.err = "NotImplementedError"

\* C5: install_guide on a name without a prior raises ValueError, whatever
\* the family and whatever other names are registered.
C5_MissingPriorFails ==
    [][\A s \in Stores, name \in Names, c \in Constructors :
         (install_guide(s, name, c) /\ name \notin DOMAIN priors[s])
         => last'.err = "ValueError"]_vars

\* An autoguide call has raised ValueError on a store with another name
\* registered.
C5_Witness ==
    /\ last.op = "autoguide"
    /\ last.err = "ValueError"
    /\ \E s \in Stores : priors[s] # EmptyDict

\* C6: after register_prior(name, prior) completes, the prior registry maps
\* name to prior and the guide of name is Delta with the one sub-parameter
\* "map"; sub-parameters of an earlier guide of name are gone.
C6_RegisterInstallsDelta ==
    [][\A s \in Stores, name \in Names, prior \in Priors :
         (register_prior(s, name, prior) /\ last'.err = "")
         => /\ name \in DOMAIN priors'[s]
            /\ priors'[s][name] = prior
            /\ name \in DOMAIN guides'[s]
            /\ guides'[s][name] = [dist_constructor |-> "Delta", dist_args |-> <<"map">>]
            /\ PresentSuffixes(attrs'[s], name) = {"map"}]_vars

\* An assignment of a prior has completed on a store where another name
\* has a Normal or MultivariateNormal guide.
C6_Witness ==
    /\ last.op = "__setattr__"
    /\ last.err = ""
    /\ \E s \in Stores, name \in Names :
         /\ name \in DOMAIN guides[s]
         /\ guides[s][name].dist_constructor = "Delta"
         /\ \E other \in DOMAIN guides[s] : guides[s][other].dist_constructor # "Delta"

\* C10: an install_guide call that raises ValueError or NotImplementedError
\* leaves the prior registry, the guide registry, every attribute, the mode
\* and the cache as they were.
C10_FailedInstallChangesNothing ==
    [][\A s \in Stores, name \in Names, c \in Constructors :
         (install_guide(s, name, c) /\ last'.err \in {"ValueError", "NotImplementedError"})
         => UNCHANGED <<priors, guides, attrs, mode, cache, draws>>]_vars

\* An autoguide call has raised NotImplementedError on a store where a
\* Normal guide is installed.
C10_Witness ==
    /\ last.op = "autoguide"
    /\ last.err = "NotImplementedError"
    /\ \E s \in Stores, name \in Names :
         /\ name \in DOMAIN guides[s]
         /\ guides[s][name].dist_constructor = "Normal"

\* The sites a step has added to the trace.
NewDraws == SubSeq(draws', Len(draws) + 1, Len(draws'))

\* The dotted full name of attribute name of store s.
FullName(s, name) == DotJoin(s \o <<name>>)

\* C3: within one pass at most one site carries any one name, every cached
\* value is the value of the site of its name, and a read of a cached
\* parameter returns the cached value and draws nothing, in any mode.
C3_OneDrawPerPass ==
    /\ [](\A i, j \in 1..Len(draws) : draws[i].tag = draws[j].tag => i = j)
    /\ [](\A s \in Stores : \A k \in DOMAIN cache[s] :
            \E i \in 1..Len(draws) : draws[i].tag = k /\ draws[i].value = cache[s][k])
    /\ [][\A s \in Stores, name \in Names :
            (sample_parameter(s, name) /\ FullName(s, name) \in DOMAIN cache[s])
            => /\ last'.ret = cache[s][FullName(s, name)]
               /\ last'.err = ""
               /\ draws' = draws
               /\ cache' = cache]_vars

\* In "guide" mode a read has returned a value that an earlier site of this
\* pass drew.
C3_Witness ==
    /\ last.op = "_pyro_sample"
    /\ last.err = ""
    /\ last.ret < Len(draws)
    /\ \E s \in Stores :
         /\ mode[s] = "guide"
         /\ \E k \in DOMAIN cache[s] : cache[s][k] = last.ret

\* C7: a read that misses the cache adds exactly one site tagged with the
\* name, as the last one and not auxiliary, caches and returns its value;
\* its distribution is a guide distribution in "guide" mode and the prior
\* in "model" mode or with the mode unset.
C7_MissDrawsOnce ==
    [][\A s \in Stores, name \in Names :
         (sample_parameter(s, name) /\ FullName(s, name) \notin DOMAIN cache[s]
            /\ last'.err = "")
         => /\ NewDraws # <<>>
            /\ {i \in 1..Len(NewDraws) : NewDraws[i].tag = FullName(s, name)}
                 = {Len(NewDraws)}
            /\ ~NewDraws[Len(NewDraws)].is_auxiliary
            /\ FullName(s, name) \in DOMAIN cache'[s]
            /\ cache'[s][FullName(s, name)] = NewDraws[Len(NewDraws)].value
            /\ last'.ret = NewDraws[Len(NewDraws)].value
            /\ IF mode[s] = "guide"
               THEN /\ NewDraws[Len(NewDraws)].fn # priors[s][name]
                    /\ NewDraws[Len(NewDraws)].fn[1] \in {"Delta", "to_event"}
               ELSE NewDraws[Len(NewDraws)].fn = priors[s][name]]_vars

\* A read with the mode unset has drawn from the prior.
C7_Witness ==
    /\ last.op = "_pyro_sample"
    /\ last.ret = Len(draws)
    /\ Len(draws) > 0
    /\ \E s \in Stores, name \in Names :
         /\ mode[s] = NoneMode
         /\ name \in DOMAIN priors[s]
         /\ draws[Len(draws)].tag = FullName(s, name)
         /\ draws[Len(draws)].fn = priors[s][name]

\* The base distribution under the Independent wrappers has real support.
HasRealBase(prior) == prior[Len(prior)] = "Normal"

\* C9: building the guide distribution in a "guide"-mode read adds an
\* auxiliary site, tagged "{full_name}_latent", and returns a point mass
\* with a log-density correction exactly when the family is Normal or
\* MultivariateNormal and the prior's independent support is not real; with
\* real support the joint distribution is returned with no auxiliary site
\* and no correction, and a Delta guide adds no auxiliary site.
C9_AuxiliaryOnlyWhenConstrained ==
    [][\A s \in Stores, name \in Names :
         (sample_parameter(s, name) /\ FullName(s, name) \notin DOMAIN cache[s]
            /\ mode[s] = "guide" /\ last'.err = "")
         => LET family == guides[s][name].dist_constructor
                constrained == family # "Delta" /\ ~HasRealBase(priors[s][name])
                aux == {i \in 1..Len(NewDraws) : NewDraws[i].is_auxiliary}
                fn == NewDraws[Len(NewDraws)].fn
            IN  /\ (aux # {}) <=> constrained
                /\ ("log_abs_det_jacobian" \in Range(fn)) <=> constrained
                /\ constrained =>
                     /\ aux = {1}
                     /\ Len(NewDraws) = 2
                     /\ NewDraws[1].tag = FullName(s, name) \o "_latent"
                     /\ NewDraws[1].fn[1] = "to_event"
                     /\ NewDraws[1].fn[2] = family
                     /\ fn[1] = "Delta"
                /\ (family # "Delta" /\ ~constrained) =>
                     /\ fn[1] = "to_event"
                     /\ fn[2] = family
                     /\ {fn[i] : i \in 3..Len(fn)}
                          = {AttrName(name, x) : x \in Suffixes(family)}
                /\ family = "Delta" => fn = <<"Delta", AttrName(name, "map")>>]_vars

\* A "guide"-mode read of the nested store's parameter, whose prior has
\* positive support and whose guide is not Delta, has added its latent site.
C9_Witness ==
    /\ last.op = "_pyro_sample"
    /\ Len(draws) >= 2
    /\ draws[Len(draws) - 1].is_auxiliary
    /\ draws[Len(draws) - 1].tag = "gp.seq.kern.a_latent"
    /\ draws[Len(draws)].tag = "gp.seq.kern.a"

RECURSIVE OwnedBy(_, _)
\* Module x is s or is reached from s through parent-to-child ownership.
OwnedBy(s, x) ==
    IF x = s THEN TRUE
    ELSE IF Len(x) = 0 THEN FALSE
    ELSE OwnedBy(s, SubSeq(x, 1, Len(x) - 1))

\* C8: set_mode(m) on a store sets the mode of that store and of every
\* store owned below it at any depth, plain modules in between included,
\* and changes nothing else: the other stores' modes, the registries, the
\* attributes and the cache stay as they were.
C8_SetModePropagates ==
    [][\A s \in Stores, m \in Modes :
         set_mode(s, m)
         => /\ \A x \in Stores :
                 mode'[x] = IF OwnedBy(s, x) THEN m ELSE mode[x]
            /\ UNCHANGED <<priors, guides, attrs, cache, draws>>]_vars

\* After set_mode the root store and its nested store are in "guide" mode,
\* the separate store in "model" mode, and the cache holds a value.
C8_Witness ==
    /\ last.op = "set_mode"
    /\ mode[<<"gp">>] = "guide"
    /\ mode[<<"gp", "seq", "kern">>] = "guide"
    /\ mode[<<"lik">>] = "model"
    /\ \E s \in Stores : cache[s] # EmptyDict

====
